---- MODULE Spec2Model ----
(***************************************************************************)
(* Job pipeline orchestrator (workers/tasks.py), progress publisher        *)
(* (_update_progress + Redis), the submission path and the SSE event       *)
(* stream (api/routes/validate.py), and the URL safety gate                *)
(* (utils/url_security.py) of the content validation tool.                 *)
(***************************************************************************)
EXTENDS Integers, Sequences, FiniteSets, TLC

(* ------------------------------ bounds -------------------------------- *)

\* largest number of selected pages of a job
MaxPages == 2

\* largest number of infrastructure exceptions (database or Redis calls
\* raising) in one run
MaxFaults == 2

(* ------------------------- URL safety gate ---------------------------- *)

\* URLs are records [scheme, host]; hosts resolve to sets of address classes.
PublicUrl == [scheme |-> "https", host |-> "example.com"]
PrivateUrl == [scheme |-> "http", host |-> "intranet.example"]
MetadataUrl == [scheme |-> "http", host |-> "169.254.169.254"]
FtpUrl == [scheme |-> "ftp", host |-> "example.com"]
NoHostUrl == [scheme |-> "https", host |-> ""]
UnresolvableUrl == [scheme |-> "https", host |-> "nxdomain.example"]
MixedUrl == [scheme |-> "https", host |-> "rebind.example"]

Urls == {PublicUrl, PrivateUrl, MetadataUrl, FtpUrl, NoHostUrl, UnresolvableUrl, MixedUrl}

\* address classes covered by _BLOCKED_RANGES
_BLOCKED_RANGES == {"loopback", "private", "link_local", "zero", "unique_local"}

_BLOCKED_HOSTS == {"metadata.google.internal", "169.254.169.254"}

\* socket.getaddrinfo: the address classes a hostname resolves to; the empty
\* set stands for socket.gaierror
getaddrinfo(hostname) ==
    CASE hostname = "example.com" -> {"public"}
      [] hostname = "intranet.example" -> {"private"}
      [] hostname = "rebind.example" -> {"public", "loopback"}
      [] hostname = "169.254.169.254" -> {"link_local"}
      [] OTHER -> {}

\* a gate that accepts a hostname as soon as one of its addresses is public
validate_url_AnyPublic(url) ==
    IF url.scheme \notin {"http", "https"} THEN FALSE
    ELSE IF url.host = "" THEN FALSE
    ELSE IF url.host \in _BLOCKED_HOSTS THEN FALSE
    ELSE getaddrinfo(url.host) \ _BLOCKED_RANGES # {}

\* validate_url: TRUE when the URL is returned, FALSE when SSRFError is raised
validate_url(url) ==
    IF url.scheme \notin {"http", "https"} THEN FALSE
    ELSE IF url.host = "" THEN FALSE
    ELSE IF url.host \in _BLOCKED_HOSTS THEN FALSE
    ELSE IF getaddrinfo(url.host) = {} THEN FALSE
    ELSE getaddrinfo(url.host) \cap _BLOCKED_RANGES = {}

\* page URLs a client submits with a job
PageUrls == {PublicUrl, PrivateUrl}

(* ------------------------------ state --------------------------------- *)

VARIABLES
    pc,            \* position of the worker in run_validation_job / start_validation
    options,       \* job options {run_deterministic, run_llm, run_axe, run_lighthouse}
    job,           \* persisted ScanJob row: status, stage, error_json, progress_json
    pages,         \* ScanPage rows of the job, in selection order
    issues,        \* persisted Issue rows: page index -> set of IssueSource
    idx,           \* index of the page the current loop works on
    scraped,       \* local counter scraped
    validated,     \* local counter validated
    llm_validator, \* TRUE when the LLMValidator was constructed
    axe_service,   \* TRUE when the AxeService was constructed
    call,          \* the _update_progress call in progress: progress, ret, scope
    progress,      \* Redis key job:{id}:progress
    events,        \* every message published on job:{id}:events, in order
    faults,        \* number of infrastructure exceptions raised so far
    redis_faults,  \* number of those raised by Redis calls
    escaped,       \* TRUE when an exception left run_validation_job
    attempts,      \* page index -> number of scraping-loop iterations run for it
    net,           \* network fetches issued: set of [by, page]
    gate,          \* page indexes whose URL validate_url accepted
    verdict,       \* page index -> what each validator does for the page
    sub_pc,        \* position of the SSE subscriber in event_generator
    inbox,         \* messages delivered to the subscriber's pubsub, unread
    seen,          \* the last snapshot with counters the subscriber has yielded
    d_pc,          \* position of a discover call
    args,          \* arguments of the discover call
    site,          \* what the site serves: sitemap, nav links, page links
    seen_urls,     \* discover: normalized URLs already in found
    found,         \* discover: its local list pages, before exclusion
    queue,         \* _crawl_bfs: FIFO of <<url, depth>>
    visited,       \* _crawl_bfs: normalized URLs dequeued or seen before
    crawl_pages,   \* _crawl_bfs: its local list pages
    loaded,        \* _crawl_bfs: the page.goto calls issued, in order
    fetched,       \* discover: the network fetches issued, set of [by, target]
    result,        \* what discover returned
    probe          \* one exclusion decision: url, rules, both answers

discVars == <<d_pc, args, site, seen_urls, found, queue, visited, crawl_pages,
              loaded, fetched, result, probe>>

vars == <<pc, options, job, pages, issues, idx, scraped, validated,
          llm_validator, axe_service, call, progress, events, faults,
          redis_faults, escaped, attempts, net, gate, verdict,
          sub_pc, inbox, seen, discVars>>

workerVars == <<pc, options, job, pages, issues, idx, scraped, validated,
                llm_validator, axe_service, call, progress, events, faults,
                redis_faults, escaped, attempts, net, gate, verdict>>

IssueSource == {"deterministic", "llm", "axe"}

TerminalStatus == {"completed", "failed", "cancelled"}

\* stages after which event_generator ends the stream
TerminalStages == {"finalizing", "failed"}

\* no value stored / no call in progress
None == [stage |-> "none"]

NoCall == [progress |-> None, ret |-> "none", scope |-> "none"]

total_pages == Len(pages)

\* a ScanPage row as create_scan_pages inserts it
NewPage(url) == [url |-> url, scrape_status |-> "pending", fetch |-> "none", chunks |-> FALSE]

BoundedSeq(S, n) == UNION {[1..k -> S] : k \in 0..n}

OptionSets ==
    [run_deterministic : BOOLEAN, run_llm : BOOLEAN, run_axe : BOOLEAN,
     run_lighthouse : BOOLEAN]

\* the defaults of ValidateRequest
DefaultOptions ==
    [run_deterministic |-> TRUE, run_llm |-> TRUE, run_axe |-> TRUE,
     run_lighthouse |-> FALSE]

\* the state after start_validation created the job and its pages
InitJob(sub, opts) ==
    /\ pc = "submit"
    /\ options \in opts
    /\ job = [status |-> "pending", stage |-> "none", error_json |-> FALSE, progress_json |-> None]
    /\ \E urls \in BoundedSeq(PageUrls, MaxPages) : pages = [i \in DOMAIN urls |-> NewPage(urls[i])]
    /\ issues = [i \in DOMAIN pages |-> {}]
    /\ idx = 0
    /\ scraped = 0
    /\ validated = 0
    /\ llm_validator = FALSE
    /\ axe_service = FALSE
    /\ call = NoCall
    /\ progress = None
    /\ events = <<>>
    /\ faults = 0
    /\ redis_faults = 0
    /\ escaped = FALSE
    /\ attempts = [i \in DOMAIN pages |-> 0]
    /\ net = {}
    /\ gate = {}
    /\ verdict = [i \in DOMAIN pages |-> [s \in IssueSource |-> "none"]]
    /\ sub_pc = sub
    /\ inbox = <<>>
    /\ seen = None

\* no discover call in progress
NoDiscoverCall ==
    /\ d_pc = "idle"
    /\ args = None
    /\ site = None
    /\ seen_urls = {}
    /\ found = <<>>
    /\ queue = <<>>
    /\ visited = {}
    /\ crawl_pages = <<>>
    /\ loaded = <<>>
    /\ fetched = {}
    /\ result = None

\* no discover call and no exclusion decision in progress
NoDiscovery == NoDiscoverCall /\ probe = None

\* the job pipeline at rest: a job without pages that is never handed to the
\* worker
NoJob == InitJob("absent", {DefaultOptions}) /\ pages = <<>>

Init == InitJob("absent", OptionSets) /\ NoDiscovery

CanFault == faults < MaxFaults


(* ------------------------- submission path ---------------------------- *)

\* start_validation, after the job and its pages were created: hand the job
\* to the worker; when job_queue.enqueue raises, mark the job failed
Enqueue ==
    /\ pc = "submit"
    /\ \/ /\ pc' = "start"
          /\ UNCHANGED job
       \/ /\ pc' = "dropped"
          /\ job' = [job EXCEPT !.status = "failed", !.error_json = TRUE]
    /\ UNCHANGED <<options, pages, issues, idx, scraped, validated, llm_validator,
                   axe_service, call, progress, events, faults, redis_faults,
                   escaped, attempts, net, gate, verdict, sub_pc, inbox, seen, discVars>>

(* ------------------------ progress publisher -------------------------- *)

\* a scraping loop that gives up at the first page that fails
ScrapeExcept_Abort ==
    /\ pages' = [pages EXCEPT ![idx].scrape_status = "failed"]
    /\ pc' = "except"
    /\ UNCHANGED <<scraped, validated, escaped>>

\* the except clause of the scraping loop
ScrapeExcept ==
    /\ pages' = [pages EXCEPT ![idx].scrape_status = "failed"]
    /\ scraped' = scraped + 1
    /\ pc' = "scrape_commit"
    /\ UNCHANGED <<validated, escaped>>

\* a validating loop that lets a validator's exception fail the job
ValidateExcept_Fails(done) ==
    /\ pc' = "except"
    /\ UNCHANGED <<pages, scraped, validated, escaped>>

\* the except clause of the validating loop, up to its db.commit(); done is 1
\* when the page was already counted before the exception
ValidateExcept(done) ==
    /\ validated' = validated + done + 1
    /\ pc' = "validate_except"
    /\ UNCHANGED <<pages, scraped, escaped>>

\* where an exception raised inside _update_progress lands, by the try block
\* that encloses the call
Raise(scope) ==
    \/ /\ scope = "outer"
       /\ pc' = "except"
       /\ UNCHANGED <<pages, scraped, validated, escaped>>
    \/ /\ scope = "scrape_page"
       /\ ScrapeExcept
    \/ /\ scope = "validate_page"
       /\ ValidateExcept(0)
    \/ /\ scope = "handler"
       /\ pc' = "done"
       /\ escaped' = TRUE
       /\ UNCHANGED <<pages, scraped, validated>>

\* _update_progress, first statement: r.set(job:{id}:progress, ...)
ProgressSet ==
    /\ pc = "set"
    /\ \/ /\ progress' = call.progress
          /\ pc' = "publish"
          /\ UNCHANGED <<call, faults, redis_faults, pages, scraped, validated, escaped>>
       \/ /\ CanFault
          /\ faults' = faults + 1
          /\ redis_faults' = redis_faults + 1
          /\ call' = NoCall
          /\ Raise(call.scope)
          /\ UNCHANGED progress
    /\ UNCHANGED <<options, job, issues, idx, llm_validator, axe_service, events,
                   attempts, net, gate, verdict, sub_pc, inbox, seen, discVars>>

\* _update_progress, second statement: r.publish(job:{id}:events, ...); Redis
\* delivers the message to every pubsub subscribed at that moment
ProgressPublish ==
    /\ pc = "publish"
    /\ \/ /\ events' = Append(events, call.progress)
          /\ inbox' = IF sub_pc \in {"subscribed", "streaming"}
                      THEN Append(inbox, call.progress) ELSE inbox
          /\ pc' = call.ret
          /\ call' = NoCall
          /\ UNCHANGED <<faults, redis_faults, pages, scraped, validated, escaped>>
       \/ /\ CanFault
          /\ faults' = faults + 1
          /\ redis_faults' = redis_faults + 1
          /\ call' = NoCall
          /\ Raise(call.scope)
          /\ UNCHANGED <<events, inbox>>
    /\ UNCHANGED <<options, job, issues, idx, llm_validator, axe_service, progress,
                   attempts, net, gate, verdict, sub_pc, seen, discVars>>

(* --------------------------- orchestrator ----------------------------- *)

\* run_validation_job: mark the job running, load its pages, publish the
\* first scraping snapshot
MarkRunning ==
    /\ pc = "start"
    /\ \/ /\ job' = [job EXCEPT !.status = "running", !.stage = "scraping"]
          /\ idx' = 1
          /\ scraped' = 0
          /\ validated' = 0
          /\ call' = [progress |-> [stage |-> "scraping", total_pages |-> total_pages,
                                    scraped |-> 0, validated |-> 0],
                      ret |-> "scrape_loop", scope |-> "outer"]
          /\ pc' = "set"
          /\ UNCHANGED faults
       \/ /\ CanFault
          /\ faults' = faults + 1
          /\ pc' = "except"
          /\ UNCHANGED <<job, idx, scraped, validated, call>>
    /\ UNCHANGED <<options, pages, issues, llm_validator, axe_service, progress,
                   events, redis_faults, escaped, attempts, net, gate, verdict,
                   sub_pc, inbox, seen, discVars>>

\* scraping loop, top of one iteration: publish "Scraping {url}"
ScrapeLoop ==
    /\ pc = "scrape_loop"
    /\ idx <= total_pages
    /\ attempts' = [attempts EXCEPT ![idx] = @ + 1]
    /\ call' = [progress |-> [stage |-> "scraping", total_pages |-> total_pages,
                              scraped |-> scraped, validated |-> validated,
                              current_page |-> idx],
                ret |-> "scrape_url", scope |-> "scrape_page"]
    /\ pc' = "set"
    /\ UNCHANGED <<options, job, pages, issues, idx, scraped, validated,
                   llm_validator, axe_service, progress, events, faults,
                   redis_faults, escaped, net, gate, verdict, sub_pc, inbox, seen, discVars>>

\* what page.goto and the extraction can do for a URL the gate accepted
FetchOutcomes == {"ok_chunks", "ok_empty", "timeout", "http_error"}

\* ScraperService.scrape_url: the gate, then the fetch; every failure is
\* logged and answered with an empty chunk list, nothing is raised
scrape_url(url, outcome) ==
    IF ~validate_url(url)
    THEN [accepted |-> FALSE, fetched |-> FALSE, fetch |-> "blocked", chunks |-> FALSE]
    ELSE [accepted |-> TRUE, fetched |-> TRUE, fetch |-> outcome,
          chunks |-> (outcome = "ok_chunks")]

\* the scrape status the loop gives a page for which scrape_url returned
ScrapeStatusOf(r) == "done"

\* scraping loop, body after the publish: scrape_url, save the chunks, set the
\* page's status
ScrapeUrl ==
    /\ pc = "scrape_url"
    /\ \E outcome \in FetchOutcomes :
         LET r == scrape_url(pages[idx].url, outcome) IN
           /\ gate' = IF r.accepted THEN gate \cup {idx} ELSE gate
           /\ net' = IF r.fetched THEN net \cup {[by |-> "scrape", page |-> idx]} ELSE net
           /\ pages' = [pages EXCEPT ![idx] = [@ EXCEPT !.scrape_status = ScrapeStatusOf(r),
                                                         !.fetch = r.fetch,
                                                         !.chunks = r.chunks]]
    /\ scraped' = scraped + 1
    /\ pc' = "scrape_commit"
    /\ UNCHANGED <<options, job, issues, idx, validated, llm_validator, axe_service,
                   call, progress, events, faults, redis_faults, escaped, attempts,
                   verdict, sub_pc, inbox, seen, discVars>>

\* scraping loop, db.commit() closing an iteration
ScrapeCommit ==
    /\ pc = "scrape_commit"
    /\ \/ /\ idx' = idx + 1
          /\ pc' = "scrape_loop"
          /\ UNCHANGED <<pages, faults>>
       \/ /\ CanFault
          /\ faults' = faults + 1
          /\ pages' = [pages EXCEPT ![idx] = [@ EXCEPT !.scrape_status = "pending",
                                                         !.chunks = FALSE]]
          /\ pc' = "except"
          /\ UNCHANGED idx
    /\ UNCHANGED <<options, job, issues, scraped, validated, llm_validator,
                   axe_service, call, progress, events, redis_faults, escaped,
                   attempts, net, gate, verdict, sub_pc, inbox, seen, discVars>>

\* end of the scraping loop: persist stage validating, publish "Starting
\* validation..."
StageValidating ==
    /\ pc = "scrape_loop"
    /\ idx > total_pages
    /\ \/ /\ job' = [job EXCEPT !.stage = "validating"]
          /\ call' = [progress |-> [stage |-> "validating", total_pages |-> total_pages,
                                    scraped |-> scraped, validated |-> 0],
                      ret |-> "prepare", scope |-> "outer"]
          /\ pc' = "set"
          /\ UNCHANGED faults
       \/ /\ CanFault
          /\ faults' = faults + 1
          /\ pc' = "except"
          /\ UNCHANGED <<job, call>>
    /\ UNCHANGED <<options, pages, issues, idx, scraped, validated, llm_validator,
                   axe_service, progress, events, redis_faults, escaped, attempts,
                   net, gate, verdict, sub_pc, inbox, seen, discVars>>

\* construct the validators the options enable; a failing LLMValidator
\* constructor leaves llm_validator None
PrepareValidators ==
    /\ pc = "prepare"
    /\ llm_validator' \in (IF options.run_llm THEN {TRUE, FALSE} ELSE {FALSE})
    /\ axe_service' = options.run_axe
    /\ idx' = 1
    /\ pc' = "validate_loop"
    /\ UNCHANGED <<options, job, pages, issues, scraped, validated, call, progress,
                   events, faults, redis_faults, escaped, attempts, net, gate,
                   verdict, sub_pc, inbox, seen, discVars>>


\* what a validator call does for a page
ValidatorOutcomes == {"issues", "raise"}

\* the validators the options enable that apply to a page: the deterministic
\* and LLM validators work on the page's chunks, the axe audit on its URL
Applicable(page) ==
    {s \in {"deterministic"} : options.run_deterministic /\ page.chunks}
    \cup {s \in {"llm"} : llm_validator /\ page.chunks}
    \cup {s \in {"axe"} : axe_service}

\* what the applicable validators do for a page ("skipped" for the others)
Verdicts(page) ==
    {v \in [IssueSource -> ValidatorOutcomes \cup {"skipped"}] :
        \A s \in IssueSource : v[s] = "skipped" <=> s \notin Applicable(page)}

\* validating loop, top of one iteration: pages whose scrape status is not
\* done are counted and skipped, the others get a "Validating {url}" publish
ValidateLoop ==
    /\ pc = "validate_loop"
    /\ idx <= total_pages
    /\ IF pages[idx].scrape_status # "done"
       THEN /\ validated' = validated + 1
            /\ idx' = idx + 1
            /\ UNCHANGED <<pc, call>>
       ELSE /\ call' = [progress |-> [stage |-> "validating", total_pages |-> total_pages,
                                      scraped |-> scraped, validated |-> validated,
                                      current_page |-> idx],
                        ret |-> "validate_page", scope |-> "validate_page"]
            /\ pc' = "set"
            /\ UNCHANGED <<validated, idx>>
    /\ UNCHANGED <<options, job, pages, issues, scraped, llm_validator, axe_service,
                   progress, events, faults, redis_faults, escaped, attempts, net,
                   gate, verdict, sub_pc, inbox, seen, discVars>>

\* 1) deterministic validation: called for every chunk, with no try block of
\* its own ("skipped" when disabled or the page has no chunks)
DeterministicCall(page, v) ==
    IF options.run_deterministic /\ page.chunks THEN v["deterministic"] ELSE "skipped"

\* 2) LLM validation: called when the validator exists and the page has
\* chunks; an exception is caught and logged
LLMCall(page, v) ==
    IF llm_validator /\ page.chunks THEN v["llm"] ELSE "skipped"

\* 3) axe audit: called when the service exists; an exception is caught and
\* logged
AxeCall(page, v) ==
    IF axe_service THEN v["axe"] ELSE "skipped"

\* all_issues of one page, given what each call did
AllIssues(det, llm, axe) ==
    (IF det = "issues" THEN {"deterministic"} ELSE {})
    \cup (IF llm = "issues" THEN {"llm"} ELSE {})
    \cup (IF axe = "issues" THEN {"axe"} ELSE {})

\* the validators a job's options name
Validators == IssueSource \cup {"lighthouse"}

\* the option that enables a validator
Enabled(s) ==
    CASE s = "deterministic" -> options.run_deterministic
      [] s = "llm" -> options.run_llm
      [] s = "axe" -> options.run_axe
      [] s = "lighthouse" -> options.run_lighthouse

\* validator s was called for page p: the loop body calls the deterministic
\* validator, then the LLM validator and the axe audit unless the
\* deterministic call raised; nothing in the worker calls Lighthouse
Invoked(p, s) ==
    /\ s \in IssueSource
    /\ verdict[p][s] \in ValidatorOutcomes
    /\ s # "deterministic" => verdict[p]["deterministic"] # "raise"

\* validating loop, body after the publish: run the validators, save the
\* issues, count the page, commit
ValidatePage ==
    /\ pc = "validate_page"
    /\ \E v \in Verdicts(pages[idx]) :
         LET page == pages[idx]
             det == DeterministicCall(page, v)
             llm == LLMCall(page, v)
             axe == AxeCall(page, v)
         IN
           /\ verdict' = [verdict EXCEPT ![idx] = v]
           /\ IF det = "raise"
              THEN /\ ValidateExcept(0)
                   /\ UNCHANGED <<issues, idx, net, faults>>
              ELSE /\ net' = IF axe # "skipped"
                             THEN net \cup {[by |-> "axe", page |-> idx]} ELSE net
                   /\ \/ /\ issues' = [issues EXCEPT ![idx] = AllIssues(det, llm, axe)]
                         /\ validated' = validated + 1
                         /\ idx' = idx + 1
                         /\ pc' = "validate_loop"
                         /\ UNCHANGED <<pages, scraped, escaped, faults>>
                      \/ /\ CanFault
                         /\ faults' = faults + 1
                         /\ ValidateExcept(1)
                         /\ UNCHANGED <<issues, idx>>
    /\ UNCHANGED <<options, job, llm_validator, axe_service, call, progress, events,
                   redis_faults, attempts, gate, sub_pc, inbox, seen, discVars>>

\* validating loop, db.commit() of the except clause
ValidateExceptCommit ==
    /\ pc = "validate_except"
    /\ \/ /\ idx' = idx + 1
          /\ pc' = "validate_loop"
          /\ UNCHANGED faults
       \/ /\ CanFault
          /\ faults' = faults + 1
          /\ pc' = "except"
          /\ UNCHANGED idx
    /\ UNCHANGED <<options, job, pages, issues, scraped, validated, llm_validator,
                   axe_service, call, progress, events, redis_faults, escaped,
                   attempts, net, gate, verdict, sub_pc, inbox, seen, discVars>>

\* a worker that writes completed as soon as the validating stage is entered
Finalize_Early ==
    /\ pc = "validate_loop"
    /\ job' = [job EXCEPT !.status = "completed", !.stage = "finalizing"]
    /\ call' = [progress |-> [stage |-> "finalizing", total_pages |-> total_pages,
                              scraped |-> scraped, validated |-> validated],
                ret |-> "done", scope |-> "outer"]
    /\ pc' = "set"
    /\ UNCHANGED <<options, pages, issues, idx, scraped, validated, llm_validator,
                   axe_service, progress, events, faults, redis_faults, escaped,
                   attempts, net, gate, verdict, sub_pc, inbox, seen, discVars>>

\* end of the validating loop: persist status completed with stage
\* finalizing, then publish the finalizing snapshot
Finalize ==
    /\ pc = "validate_loop"
    /\ idx > total_pages
    /\ \/ LET final == [stage |-> "finalizing", total_pages |-> total_pages,
                        scraped |-> scraped, validated |-> validated]
          IN /\ job' = [job EXCEPT !.status = "completed", !.stage = "finalizing",
                                   !.progress_json = final]
             /\ call' = [progress |-> final, ret |-> "done", scope |-> "outer"]
             /\ pc' = "set"
             /\ UNCHANGED faults
       \/ /\ CanFault
          /\ faults' = faults + 1
          /\ pc' = "except"
          /\ UNCHANGED <<job, call>>
    /\ UNCHANGED <<options, pages, issues, idx, scraped, validated, llm_validator,
                   axe_service, progress, events, redis_faults, escaped, attempts,
                   net, gate, verdict, sub_pc, inbox, seen, discVars>>

\* the outermost except clause: write status failed with the error payload
\* (a failure of that write is swallowed), then publish the failed snapshot
\* outside any try block
Except ==
    /\ pc = "except"
    /\ \/ /\ job' = [job EXCEPT !.status = "failed", !.error_json = TRUE]
          /\ UNCHANGED faults
       \/ /\ CanFault
          /\ faults' = faults + 1
          /\ UNCHANGED job
    /\ call' = [progress |-> [stage |-> "failed"], ret |-> "done", scope |-> "handler"]
    /\ pc' = "set"
    /\ UNCHANGED <<options, pages, issues, idx, scraped, validated, llm_validator,
                   axe_service, progress, events, redis_faults, escaped, attempts,
                   net, gate, verdict, sub_pc, inbox, seen, discVars>>

(* ---------------------------- SSE stream ------------------------------ *)

\* event_generator: pubsub.subscribe(job:{id}:events)
Subscribe ==
    /\ sub_pc = "connect"
    /\ sub_pc' = "subscribed"
    /\ UNCHANGED <<workerVars, inbox, seen, discVars>>

\* what the client has after event e is yielded to it
Yield(e) == IF "scraped" \in DOMAIN e THEN e ELSE seen

\* event_generator: read job:{id}:progress and yield it when it exists
SendCurrent ==
    /\ sub_pc = "subscribed"
    /\ seen' = IF progress # None THEN Yield(progress) ELSE seen
    /\ sub_pc' = "streaming"
    /\ UNCHANGED <<workerVars, inbox, discVars>>

\* event_generator: one pubsub.get_message that returns a message; yield it
\* and end the stream after a finalizing or failed stage
GetMessage ==
    /\ sub_pc = "streaming"
    /\ inbox # <<>>
    /\ seen' = Yield(Head(inbox))
    /\ inbox' = Tail(inbox)
    /\ sub_pc' = IF Head(inbox).stage \in TerminalStages THEN "closed" ELSE "streaming"
    /\ UNCHANGED <<workerVars, discVars>>

(* --------------------------- cancellation ----------------------------- *)

\* an external request marks a pending or running job cancelled in the
\* database; the orchestrator is to observe it at its stage boundaries
Cancel ==
    /\ job.status \in {"pending", "running"}
    /\ job' = [job EXCEPT !.status = "cancelled"]
    /\ UNCHANGED <<pc, options, pages, issues, idx, scraped, validated, llm_validator,
                   axe_service, call, progress, events, faults, redis_faults,
                   escaped, attempts, net, gate, verdict, sub_pc, inbox, seen, discVars>>

(* ------------------------- discovery: URLs ---------------------------- *)

\* settings.MAX_CRAWL_PAGES and settings.MAX_CRAWL_DEPTH
MAX_CRAWL_PAGES == 50

MAX_CRAWL_DEPTH == 3

\* largest max_pages and max_depth a caller passes
MaxArg == 2

\* Strings are sequences of tokens. str.lower() on one token:
LowerTok(c) ==
    CASE c = "A" -> "a"
      [] c = "B" -> "b"
      [] c = "Login" -> "login"
      [] c = "Example.com" -> "example.com"
      [] OTHER -> c

lower(str) == [i \in DOMAIN str |-> LowerTok(str[i])]

\* Python's "x in y" on strings
In(x, y) == \E i \in 0..(Len(y) - Len(x)) : SubSeq(y, i + 1, i + Len(x)) = x

\* str.rstrip("/")
RECURSIVE rstrip(_)
rstrip(str) ==
    IF str # <<>> /\ str[Len(str)] = "/" THEN rstrip(SubSeq(str, 1, Len(str) - 1)) ELSE str

\* the URLs of discovery: scheme, host, path and fragment
Url(host, path, fragment) ==
    [scheme |-> "https", host |-> host, path |-> path, fragment |-> fragment]

Home == Url("example.com", <<>>, "")
PageA == Url("example.com", <<"/", "a">>, "")
PageASlash == Url("example.com", <<"/", "a", "/">>, "")
PageB == Url("example.com", <<"/", "b">>, "")
PageLogin == Url("example.com", <<"/", "account", "/", "Login">>, "")
OffSite == Url("other.example", <<"/", "a">>, "")
BlockedBase == [scheme |-> "http", host |-> "intranet.example", path |-> <<>>, fragment |-> ""]

\* normalize_url(url): drop the fragment and the path's trailing slashes, an
\* empty path becomes "/"
normalize_url(url) ==
    [url EXCEPT !.path = IF rstrip(@) = <<>> THEN <<"/">> ELSE rstrip(@),
                !.fragment = ""]

\* is_same_domain: the hostnames are equal, case ignored
is_same_domain(url, base_url) == LowerTok(url.host) = LowerTok(base_url.host)

\* the text of a URL, and urlparse(url).path
UrlText(url) ==
    <<url.scheme, "://", url.host>> \o url.path
    \o (IF url.fragment = "" THEN <<>> ELSE <<"#", url.fragment>>)

UrlPath(url) == url.path

(* ----------------------- discovery: exclusion ------------------------- *)

\* re.search(pattern, text, re.IGNORECASE) for a literal pattern; the
\* pattern "(" does not compile (re.error)
RegexMalformed(pattern) == pattern = <<"(">>

re_search(pattern, text) == In(lower(pattern), lower(text))

\* DiscoveryService._should_exclude
RECURSIVE _should_exclude(_, _)
_should_exclude(url, rules) ==
    IF rules = <<>> THEN FALSE
    ELSE LET rule == Head(rules)
             path == lower(UrlPath(url))
         IN IF rule.rule_type = "url_contains" /\ In(lower(rule.rule_value), path)
            THEN TRUE
            ELSE IF rule.rule_type = "url_regex"
                    /\ ~RegexMalformed(rule.rule_value)
                    /\ re_search(rule.rule_value, UrlText(url))
            THEN TRUE
            ELSE IF rule.rule_type = "path_blocklist" /\ In(lower(rule.rule_value), path)
            THEN TRUE
            ELSE _should_exclude(url, Tail(rules))

\* ExclusionService._is_excluded
RECURSIVE _is_excluded(_, _)
_is_excluded(url, rules) ==
    IF rules = <<>> THEN FALSE
    ELSE LET rule == Head(rules)
             path == lower(UrlPath(url))
         IN IF rule.rule_type = "url_contains"
                 /\ In(lower(rule.rule_value), lower(UrlText(url)))
            THEN TRUE
            ELSE IF rule.rule_type = "url_regex"
                    /\ ~RegexMalformed(rule.rule_value)
                    /\ re_search(rule.rule_value, UrlText(url))
            THEN TRUE
            ELSE IF rule.rule_type = "path_blocklist" /\ In(lower(rule.rule_value), path)
            THEN TRUE
            ELSE IF rule.rule_type = "domain_blocklist"
                    /\ In(lower(rule.rule_value), <<LowerTok(url.host)>>)
            THEN TRUE
            ELSE _is_excluded(url, Tail(rules))

(* ------------------------ discovery: discover ------------------------- *)

\* everything of the job pipeline and its event stream
jobVars == <<workerVars, sub_pc, inbox, seen>>

\* max_pages = max_pages or self.max_pages; max_depth likewise
max_pages == IF args.max_pages = 0 THEN MAX_CRAWL_PAGES ELSE args.max_pages

max_depth == IF args.max_depth = 0 THEN MAX_CRAWL_DEPTH ELSE args.max_depth

\* a discovered page entry
Page(url, source) == [url |-> url, source |-> source, selected |-> TRUE]

\* _discover_sitemap, one <urlset>: keep the same-domain <loc> entries until
\* max_pages URLs are collected
RECURSIVE CollectLocs(_, _)
CollectLocs(locs, urls) ==
    IF locs = <<>> THEN urls
    ELSE IF is_same_domain(Head(locs), args.base_url)
         THEN IF Len(urls) + 1 >= max_pages
              THEN Append(urls, Head(locs))
              ELSE CollectLocs(Tail(locs), Append(urls, Head(locs)))
         ELSE CollectLocs(Tail(locs), urls)

\* _discover_sitemap, a sitemap index: the sub-sitemaps in order, until
\* max_pages URLs are collected
RECURSIVE CollectSubs(_, _)
CollectSubs(refs, urls) ==
    IF refs = <<>> THEN urls
    ELSE LET more == CollectLocs(Head(refs), urls)
         IN IF Len(more) >= max_pages THEN more ELSE CollectSubs(Tail(refs), more)

\* _discover_sitemap: the page entries of the site's sitemap.xml
_discover_sitemap ==
    LET sm == site.sitemap
        urls == CASE sm.kind = "missing" -> <<>>
                  [] sm.kind = "urlset" -> CollectLocs(sm.locs[1], <<>>)
                  [] sm.kind = "index" ->
                       CollectSubs(SubSeq(sm.locs, 1, IF Len(sm.locs) < 5 THEN Len(sm.locs) ELSE 5), <<>>)
    IN [i \in DOMAIN urls |-> Page(urls[i], "sitemap")]

\* _discover_nav: the same-domain links of the base page's nav areas
_discover_nav ==
    LET same == SelectSeq(site.nav, LAMBDA href : is_same_domain(normalize_url(href), args.base_url))
    IN [i \in DOMAIN same |-> Page(normalize_url(same[i]), "nav")]

\* _discover_sitemap: the number of sub-sitemaps of an index that are fetched
RECURSIVE RefsFetched(_, _)
RefsFetched(refs, urls) ==
    IF refs = <<>> THEN 0
    ELSE LET more == CollectLocs(Head(refs), urls)
         IN IF Len(more) >= max_pages THEN 1 ELSE 1 + RefsFetched(Tail(refs), more)

\* _discover_sitemap: its fetches: base_url + "/sitemap.xml", the
\* sub-sitemaps of an index, and every collected URL for its title
SitemapFetches ==
    LET sm == site.sitemap
        refs == SubSeq(sm.locs, 1, IF Len(sm.locs) < 5 THEN Len(sm.locs) ELSE 5)
    IN {[by |-> "sitemap",
         target |-> [args.base_url EXCEPT !.path = rstrip(@) \o <<"/", "sitemap.xml">>]]}
       \cup (IF sm.kind = "index"
             THEN {[by |-> "sub_sitemap", target |-> i] : i \in 1..RefsFetched(refs, <<>>)}
             ELSE {})
       \cup {[by |-> "title", target |-> _discover_sitemap[i].url] : i \in DOMAIN _discover_sitemap}

\* discover, a merge loop that appends every entry
Merge_NoDedup(new, pgs, seen_) ==
    [pages |-> pgs \o new,
     seen_urls |-> seen_ \cup {normalize_url(new[i].url) : i \in DOMAIN new}]

\* discover, the merge loop of the sitemap and crawl stages: append the
\* entries whose normalized URL was not seen yet
RECURSIVE Merge(_, _, _)
Merge(new, pgs, seen_) ==
    IF new = <<>> THEN [pages |-> pgs, seen_urls |-> seen_]
    ELSE LET norm == normalize_url(Head(new).url)
         IN IF norm \notin seen_
            THEN Merge(Tail(new), Append(pgs, Head(new)), seen_ \cup {norm})
            ELSE Merge(Tail(new), pgs, seen_)

\* discover, the merge loop of the nav stage: same-domain entries not seen
\* yet, until max_pages pages are found
RECURSIVE MergeNav(_, _, _)
MergeNav(new, pgs, seen_) ==
    IF new = <<>> THEN [pages |-> pgs, seen_urls |-> seen_]
    ELSE LET norm == normalize_url(Head(new).url)
         IN IF norm \notin seen_ /\ is_same_domain(Head(new).url, args.base_url)
            THEN IF Len(pgs) + 1 >= max_pages
                 THEN [pages |-> Append(pgs, Head(new)), seen_urls |-> seen_ \cup {norm}]
                 ELSE MergeNav(Tail(new), Append(pgs, Head(new)), seen_ \cup {norm})
            ELSE MergeNav(Tail(new), pgs, seen_)

\* a discover that goes on after the gate rejected base_url
DiscoverGate_NoShortCircuit ==
    /\ d_pc = "call"
    /\ d_pc' = "sitemap"
    /\ UNCHANGED <<args, site, seen_urls, found, queue, visited, crawl_pages, loaded,
                   fetched, result, probe, jobVars>>

\* discover: the gate on base_url; a rejected base URL returns the empty
\* result at once
DiscoverGate ==
    /\ d_pc = "call"
    /\ IF validate_url(args.base_url)
       THEN /\ d_pc' = "sitemap"
            /\ UNCHANGED result
       ELSE /\ d_pc' = "returned"
            /\ result' = [pages |-> <<>>, smart_exclude_suggestions |-> <<>>,
                          total_found |-> 0]
    /\ UNCHANGED <<args, site, seen_urls, found, queue, visited, crawl_pages, loaded,
                   fetched, probe, jobVars>>

\* discover, 1) sitemap
SitemapStage ==
    /\ d_pc = "sitemap"
    /\ IF args.use_sitemap
       THEN LET m == Merge(_discover_sitemap, found, seen_urls)
            IN /\ found' = m.pages
               /\ seen_urls' = m.seen_urls
               /\ fetched' = fetched \cup SitemapFetches
       ELSE UNCHANGED <<found, seen_urls, fetched>>
    /\ d_pc' = "nav"
    /\ UNCHANGED <<args, site, queue, visited, crawl_pages, loaded, result, probe, jobVars>>

\* discover, 2) nav links
NavStage ==
    /\ d_pc = "nav"
    /\ IF args.use_nav /\ Len(found) < max_pages
       THEN LET m == MergeNav(_discover_nav, found, seen_urls)
            IN /\ found' = m.pages
               /\ seen_urls' = m.seen_urls
               /\ fetched' = fetched \cup {[by |-> "nav", target |-> args.base_url]}
       ELSE UNCHANGED <<found, seen_urls, fetched>>
    /\ d_pc' = "crawl"
    /\ UNCHANGED <<args, site, queue, visited, crawl_pages, loaded, result, probe, jobVars>>

\* discover, 3) crawl fallback: call _crawl_bfs with the remaining budget
CrawlStage ==
    /\ d_pc = "crawl"
    /\ IF args.crawl_fallback /\ Len(found) < max_pages
       THEN /\ queue' = <<[url |-> args.base_url, depth |-> 0]>>
            /\ visited' = seen_urls
            /\ crawl_pages' = <<>>
            /\ d_pc' = "bfs"
       ELSE /\ d_pc' = "exclude"
            /\ UNCHANGED <<queue, visited, crawl_pages>>
    /\ UNCHANGED <<args, site, seen_urls, found, loaded, fetched, result, probe, jobVars>>

\* the max_pages argument of _crawl_bfs
CrawlBudget == max_pages - Len(found)

\* _crawl_bfs: the same-domain links of a loaded page that are not visited
LinksToEnqueue(url, depth, visited_) ==
    LET hrefs == site.links[normalize_url(url)]
        full == [i \in DOMAIN hrefs |-> normalize_url(hrefs[i])]
        keep == SelectSeq(full, LAMBDA f : is_same_domain(f, args.base_url) /\ f \notin visited_)
    IN [i \in DOMAIN keep |-> [url |-> keep[i], depth |-> depth + 1]]

\* _crawl_bfs, one iteration of the while loop
CrawlStep ==
    /\ d_pc = "bfs"
    /\ queue # <<>>
    /\ Len(crawl_pages) < CrawlBudget
    /\ LET url == Head(queue).url
           depth == Head(queue).depth
           norm == normalize_url(url)
       IN IF depth > max_depth \/ norm \in visited
          THEN /\ queue' = Tail(queue)
               /\ UNCHANGED <<visited, crawl_pages, loaded, fetched>>
          ELSE /\ visited' = visited \cup {norm}
               /\ loaded' = Append(loaded, [url |-> url, depth |-> depth])
               /\ fetched' = fetched \cup {[by |-> "crawl", target |-> url]}
               /\ \E ok \in BOOLEAN :
                    IF ok
                    THEN /\ crawl_pages' = Append(crawl_pages, Page(norm, "crawl"))
                         /\ queue' = IF depth < max_depth
                                      THEN Tail(queue) \o LinksToEnqueue(url, depth, visited')
                                      ELSE Tail(queue)
                    ELSE /\ queue' = Tail(queue)
                         /\ UNCHANGED crawl_pages
    /\ UNCHANGED <<d_pc, args, site, seen_urls, found, result, probe, jobVars>>

\* _crawl_bfs returns; discover merges the crawled pages
CrawlReturn ==
    /\ d_pc = "bfs"
    /\ ~(queue # <<>> /\ Len(crawl_pages) < CrawlBudget)
    /\ LET m == Merge(crawl_pages, found, seen_urls)
       IN found' = m.pages /\ seen_urls' = m.seen_urls
    /\ d_pc' = "exclude"
    /\ UNCHANGED <<args, site, queue, visited, crawl_pages, loaded, fetched, result, probe,
                   jobVars>>

\* SMART_EXCLUDE_PATTERNS, in the order of the dict
SMART_EXCLUDE_PATTERNS ==
    <<[pattern |-> "privacy", reason |-> "Privacy policy page"],
      [pattern |-> "terms", reason |-> "Terms and conditions page"],
      [pattern |-> "cookie", reason |-> "Cookie policy page"],
      [pattern |-> "login", reason |-> "Login/authentication page"],
      [pattern |-> "account", reason |-> "Account management page"],
      [pattern |-> "portal", reason |-> "Resident/user portal"],
      [pattern |-> "apply", reason |-> "Application form page"],
      [pattern |-> "resident", reason |-> "Resident-only page"],
      [pattern |-> "admin", reason |-> "Admin page"],
      [pattern |-> "sign-in", reason |-> "Sign-in page"],
      [pattern |-> "sign-up", reason |-> "Sign-up page"],
      [pattern |-> "register", reason |-> "Registration page"],
      [pattern |-> "checkout", reason |-> "Checkout page"],
      [pattern |-> "cart", reason |-> "Shopping cart page"]>>

\* a lookup that takes the table entry whose pattern comes first in the path
FirstPattern_InPathOrder(path, table) ==
    LET hits == SelectSeq(path, LAMBDA tok : \E k \in DOMAIN table : table[k].pattern = tok)
    IN IF hits = <<>> THEN <<>>
       ELSE SelectSeq(table, LAMBDA e : e.pattern = hits[1])

\* get_smart_exclude_suggestions, the inner loop: the first entry of the
\* table whose pattern occurs in the path, as a list of at most one entry
RECURSIVE FirstPattern(_, _)
FirstPattern(path, table) ==
    IF table = <<>> THEN <<>>
    ELSE IF In(<<Head(table).pattern>>, path) THEN <<Head(table)>>
    ELSE FirstPattern(path, Tail(table))

\* get_smart_exclude_suggestions
RECURSIVE get_smart_exclude_suggestions(_)
get_smart_exclude_suggestions(urls) ==
    IF urls = <<>> THEN <<>>
    ELSE LET url == Head(urls)
             hit == FirstPattern(lower(UrlPath(url)), SMART_EXCLUDE_PATTERNS)
         IN [i \in DOMAIN hit |-> [url |-> url, reason |-> hit[i].reason,
                                    pattern |-> hit[i].pattern]]
            \o get_smart_exclude_suggestions(Tail(urls))

\* a result that lists the excluded pages first
ResultPages_ExcludedFirst(active, excluded) == excluded \o active

\* discover: the returned pages list, "pages": active + excluded
ResultPages(active, excluded) == active \o excluded

\* discover: apply the exclusion rules and return
ExcludeStage ==
    /\ d_pc = "exclude"
    /\ LET hit(p) == _should_exclude(p.url, args.exclusion_rules)
           excluded == [i \in DOMAIN SelectSeq(found, hit) |->
                           [SelectSeq(found, hit)[i] EXCEPT !.selected = FALSE]]
           active == SelectSeq(found, LAMBDA p : ~hit(p))
       IN result' = [pages |-> ResultPages(active, excluded),
                     excluded |-> excluded,
                     smart_exclude_suggestions |->
                         get_smart_exclude_suggestions([i \in DOMAIN active |-> active[i].url]),
                     total_found |-> Len(found)]
    /\ d_pc' = "returned"
    /\ UNCHANGED <<args, site, seen_urls, found, queue, visited, crawl_pages, loaded,
                   fetched, probe, jobVars>>

\* what a site can serve: its sitemap.xml (missing, a <urlset>, or an index
\* of sub-sitemaps), the links of its nav areas, and the links of its pages
SitemapContents ==
    {[kind |-> "missing", locs |-> <<>>],
     [kind |-> "urlset", locs |-> <<<<PageA, PageASlash, Home>>>>],
     [kind |-> "urlset", locs |-> <<<<OffSite, PageB, PageA>>>>],
     [kind |-> "index", locs |-> <<<<PageA>>, <<PageB, PageASlash>>>>]}

NavContents == {<<>>, <<PageASlash, PageB>>, <<PageLogin, Home, OffSite, PageA>>}

LinkGraphs ==
    {(normalize_url(Home) :> <<PageA, PageB>>) @@ (PageA :> <<PageB, Home>>) @@ (PageB :> <<>>),
     (normalize_url(Home) :> <<PageASlash, OffSite>>) @@ (PageA :> <<PageB>>) @@ (PageB :> <<Home>>)}

\* exclusion rules as the route passes them: rule_type and rule_value
Rule(type, value) == [rule_type |-> type, rule_value |-> value]

RuleLists ==
    {<<>>,
     <<Rule("path_blocklist", <<"B">>)>>,
     <<Rule("url_regex", <<"(">>), Rule("url_contains", <<"example.com">>)>>}

\* a call discover(base_url, use_sitemap, use_nav, crawl_fallback, max_pages,
\* max_depth, exclusion_rules) on a site
InitDiscover ==
    /\ NoJob
    /\ d_pc = "call"
    /\ args \in [base_url : {Home, BlockedBase},
                  use_sitemap : BOOLEAN, use_nav : BOOLEAN, crawl_fallback : BOOLEAN,
                  max_pages : 0..MaxArg, max_depth : 0..MaxArg,
                  exclusion_rules : RuleLists]
    /\ site \in [sitemap : SitemapContents, nav : NavContents, links : LinkGraphs]
    /\ seen_urls = {}
    /\ found = <<>>
    /\ queue = <<>>
    /\ visited = {}
    /\ crawl_pages = <<>>
    /\ loaded = <<>>
    /\ fetched = {}
    /\ result = None
    /\ probe = None

NextDiscover ==
    \/ DiscoverGate
    \/ SitemapStage
    \/ NavStage
    \/ CrawlStage
    \/ CrawlStep
    \/ CrawlReturn
    \/ ExcludeStage

SpecDiscover == InitDiscover /\ [][NextDiscover]_vars

\* longest rule list of an exclusion decision
MaxRules == 2

ProbeUrls == {Home, PageA, PageB, OffSite, Url("Example.com", <<"/", "A">>, "x")}

RuleTypes ==
    {"url_contains", "url_regex", "path_blocklist", "domain_blocklist", "nav_label_exclude"}

RuleValues == {<<"a">>, <<"/", "B">>, <<"example.com">>, <<"(">>}

Rules == {Rule(t, v) : t \in RuleTypes, v \in RuleValues}

\* one URL and one rule list, put to both exclusion functions
InitExclusion ==
    /\ NoJob
    /\ NoDiscoverCall
    /\ probe \in [url : ProbeUrls, rules : BoundedSeq(Rules, MaxRules), answered : {FALSE}]

\* the decision of discover (_should_exclude) and the decision of the
\* exclusion service (_is_excluded) for the same URL and rules
Decide ==
    /\ probe.answered = FALSE
    /\ probe' = [url |-> probe.url, rules |-> probe.rules, answered |-> TRUE,
                 discovery |-> _should_exclude(probe.url, probe.rules),
                 service |-> _is_excluded(probe.url, probe.rules)]
    /\ UNCHANGED <<d_pc, args, site, seen_urls, found, queue, visited, crawl_pages,
                   loaded, fetched, result, jobVars>>

NextExclusion == Decide

SpecExclusion == InitExclusion /\ [][NextExclusion]_vars

\* the URLs put to the gate alone: every scheme with every hostname
GateSchemes == {"http", "https", "ftp", "file", ""}

GateHosts ==
    {"", "example.com", "intranet.example", "rebind.example", "nxdomain.example",
     "169.254.169.254", "metadata.google.internal"}

GateUrls ==
    [scheme : GateSchemes, host : GateHosts, path : {<<>>, <<"/">>, <<"/", "a", "/">>},
     fragment : {"", "x"}]

\* validate_url as its caller sees it: the URL it was given, or SSRFError
ValidateUrlCall(url) ==
    IF validate_url(url) THEN [raised |-> FALSE, value |-> url] ELSE [raised |-> TRUE]

InitGate ==
    /\ NoJob
    /\ NoDiscoverCall
    /\ probe \in [url : GateUrls, answered : {FALSE}]

\* one call of validate_url
Validate ==
    /\ probe.answered = FALSE
    /\ probe' = [url |-> probe.url, answered |-> TRUE, ret |-> ValidateUrlCall(probe.url)]
    /\ UNCHANGED <<d_pc, args, site, seen_urls, found, queue, visited, crawl_pages,
                   loaded, fetched, result, jobVars>>

NextGate == Validate

SpecGate == InitGate /\ [][NextGate]_vars

(* ----------------------- the two URL normalizers ---------------------- *)

\* most tokens after the scheme and host of a URL text
MaxTail == 3

\* str.find(tok, from) and str.rfind(tok), 1-based; 0 when tok is absent
Find(str, tok, from) ==
    IF \E i \in from..Len(str) : str[i] = tok
    THEN CHOOSE i \in from..Len(str) : str[i] = tok /\ \A j \in from..(i - 1) : str[j] # tok
    ELSE 0

RFind(str, tok) ==
    IF \E i \in 1..Len(str) : str[i] = tok
    THEN CHOOSE i \in 1..Len(str) : str[i] = tok /\ \A j \in (i + 1)..Len(str) : str[j] # tok
    ELSE 0

\* str.split(tok, 1): the text before the first tok and the text after it
SplitOnce(str, tok) ==
    LET i == Find(str, tok, 1)
    IN IF i = 0 THEN <<str, <<>>>>
       ELSE <<SubSeq(str, 1, i - 1), SubSeq(str, i + 1, Len(str))>>

\* urllib.parse._splitparams: the params start at the first ";" of the last
\* path segment
_splitparams(url) ==
    LET i == IF RFind(url, "/") > 0 THEN Find(url, ";", RFind(url, "/")) ELSE Find(url, ";", 1)
    IN IF i = 0 THEN <<url, <<>>>>
       ELSE <<SubSeq(url, 1, i - 1), SubSeq(url, i + 1, Len(url))>>

\* urllib.parse.urlparse of a URL text whose first token is scheme://host
urlparse(text) ==
    LET rest == Tail(text)
        f == SplitOnce(rest, "#")
        q == SplitOnce(f[1], "?")
        p == _splitparams(q[1])
    IN [origin |-> Head(text), path |-> p[1], params |-> p[2], query |-> q[2],
        fragment |-> f[2]]

\* urllib.parse.urlunparse: empty params, query and fragment leave no mark
urlunparse(u) ==
    <<u.origin>>
    \o (IF u.path # <<>> /\ Head(u.path) # "/" THEN <<"/">> ELSE <<>>) \o u.path
    \o (IF u.params # <<>> THEN <<";">> \o u.params ELSE <<>>)
    \o (IF u.query # <<>> THEN <<"?">> \o u.query ELSE <<>>)
    \o (IF u.fragment # <<>> THEN <<"#">> \o u.fragment ELSE <<>>)

\* url_security.normalize_url on a URL text, base_url None
url_security_normalize_url(text) ==
    LET parsed == urlparse(text)
    IN urlunparse([origin |-> parsed.origin,
                   path |-> IF rstrip(parsed.path) = <<>> THEN <<"/">> ELSE rstrip(parsed.path),
                   params |-> parsed.params,
                   query |-> parsed.query,
                   fragment |-> <<>>])

\* fingerprints.normalize_url on a URL text
fingerprints_normalize_url(text) ==
    IF text = <<>> THEN <<>> ELSE lower(rstrip(SplitOnce(text, "#")[1]))

\* URL texts: https://example.com and up to MaxTail tokens
TailTokens == {"/", "a", "A", ";", "?", "#"}

UrlTexts ==
    {<<"https://example.com">> \o t : t \in
        {t \in BoundedSeq(TailTokens, MaxTail) : t = <<>> \/ Head(t) \in {"/", "?", "#"}}}

\* two URL texts that differ only by trailing slashes of the path and/or by
\* the fragment
SameUpToSlashAndFragment(u, v) ==
    LET pu == urlparse(u)
        pv == urlparse(v)
    IN /\ pu.origin = pv.origin
       /\ rstrip(pu.path) = rstrip(pv.path)
       /\ pu.params = pv.params
       /\ pu.query = pv.query

InitNormalize ==
    /\ NoJob
    /\ NoDiscoverCall
    /\ probe \in [url : UrlTexts, answered : {FALSE}]

\* both normalizers applied once and twice to a URL, and once to a URL that
\* differs from it only by trailing slash and/or fragment
Normalize ==
    /\ probe.answered = FALSE
    /\ \E v \in UrlTexts :
        /\ SameUpToSlashAndFragment(probe.url, v)
        /\ probe' = [url |-> probe.url, other |-> v, answered |-> TRUE,
                     discovery |-> url_security_normalize_url(probe.url),
                     discovery_twice |->
                         url_security_normalize_url(url_security_normalize_url(probe.url)),
                     discovery_other |-> url_security_normalize_url(v),
                     fingerprint |-> fingerprints_normalize_url(probe.url),
                     fingerprint_twice |->
                         fingerprints_normalize_url(fingerprints_normalize_url(probe.url)),
                     fingerprint_other |-> fingerprints_normalize_url(v)]
    /\ UNCHANGED <<d_pc, args, site, seen_urls, found, queue, visited, crawl_pages,
                   loaded, fetched, result, jobVars>>

NextNormalize == Normalize

SpecNormalize == InitNormalize /\ [][NextNormalize]_vars

(* -------------------------- issue fingerprints ------------------------ *)

\* the evidence cap of compute_issue_fingerprint: normalize_text(evidence)[:200]
EVIDENCE_CAP == 200

\* characters matched by \s
IsSpace(c) == c \in {" ", "\t"}

\* str.strip()
RECURSIVE lstrip_space(_)
lstrip_space(str) ==
    IF str # <<>> /\ IsSpace(Head(str)) THEN lstrip_space(Tail(str)) ELSE str

RECURSIVE rstrip_space(_)
rstrip_space(str) ==
    IF str # <<>> /\ IsSpace(str[Len(str)])
    THEN rstrip_space(SubSeq(str, 1, Len(str) - 1))
    ELSE str

\* re.sub(r'\s+', ' ', text), computed by halves
RECURSIVE collapse(_)
collapse(str) ==
    IF str = <<>> THEN <<>>
    ELSE IF Len(str) = 1 THEN (IF IsSpace(str[1]) THEN <<" ">> ELSE str)
    ELSE LET h == Len(str) \div 2
             l == collapse(SubSeq(str, 1, h))
             r == collapse(SubSeq(str, h + 1, Len(str)))
         IN IF l[Len(l)] = " " /\ r[1] = " " THEN l \o Tail(r) ELSE l \o r

\* normalize_text: lower-case, strip, collapse whitespace
normalize_text(text) ==
    IF text = <<>> THEN <<>> ELSE collapse(rstrip_space(lstrip_space(lower(text))))

\* "|".join(parts)
RECURSIVE join(_)
join(parts) ==
    IF parts = <<>> THEN <<>>
    ELSE IF Len(parts) = 1 THEN parts[1]
    ELSE parts[1] \o <<"|">> \o join(Tail(parts))

\* an optional guideline_rule_id: None, or a string
NoRule == [given |-> FALSE, text |-> <<>>]
RuleId(text) == [given |-> TRUE, text |-> text]

\* the parts list of compute_issue_fingerprint
parts(page_url, category, issue_type, evidence, guideline_rule_id) ==
    <<fingerprints_normalize_url(page_url),
      lower(category),
      lower(issue_type),
      LET e == normalize_text(evidence)
      IN SubSeq(e, 1, IF Len(e) < EVIDENCE_CAP THEN Len(e) ELSE EVIDENCE_CAP)>>
    \o (IF guideline_rule_id.given /\ guideline_rule_id.text # <<>>
        THEN <<guideline_rule_id.text>>
        ELSE <<>>)

\* compute_issue_fingerprint: the text that is hashed; SHA-256 is taken as
\* injective, equal fingerprints are equal texts
compute_issue_fingerprint(page_url, category, issue_type, evidence, guideline_rule_id) ==
    join(parts(page_url, category, issue_type, evidence, guideline_rule_id))

Repeat(c, n) == [i \in 1..n |-> c]

\* the findings put to compute_issue_fingerprint
FindingUrls ==
    {<<"https://example.com", "/", "a">>,
     <<"https://example.com", "/", "a", "/", "#", "a">>,
     <<"https://example.com", "/", "a", "/", "?", "a">>,
     <<"https://example.com", "/", "a", "?", "a">>}

Evidences ==
    {<<"x">>, <<"X", " ">>, Repeat("x", EVIDENCE_CAP) \o <<"y">>,
     Repeat("x", EVIDENCE_CAP) \o <<"z">>}

Findings ==
    [page_url : FindingUrls,
     category : {<<"a">>, <<"A">>, <<"a", "|", "b">>},
     issue_type : {<<"c">>, <<"b", "|", "c">>},
     evidence : Evidences,
     guideline_rule_id : {NoRule, RuleId(<<>>), RuleId(<<"r">>)}]

FingerprintOf(f) ==
    compute_issue_fingerprint(f.page_url, f.category, f.issue_type, f.evidence,
                              f.guideline_rule_id)

InitFingerprint ==
    /\ NoJob
    /\ NoDiscoverCall
    /\ probe \in [a : Findings, answered : {FALSE}]

\* the fingerprint of a finding, computed twice, and of a second finding
Fingerprint ==
    /\ probe.answered = FALSE
    /\ \E b \in Findings :
        probe' = [a |-> probe.a, b |-> b, answered |-> TRUE,
                  fp_a |-> FingerprintOf(probe.a),
                  fp_a_again |-> FingerprintOf(probe.a),
                  fp_b |-> FingerprintOf(b)]
    /\ UNCHANGED <<d_pc, args, site, seen_urls, found, queue, visited, crawl_pages,
                   loaded, fetched, result, jobVars>>

NextFingerprint == Fingerprint

SpecFingerprint == InitFingerprint /\ [][NextFingerprint]_vars

(* ------------------------------ scan diff ----------------------------- *)

\* fingerprint maps: fingerprint -> issue, an issue has a severity and a
\* category
Fingerprints == {"f1", "f2", "f3"}

IssueDicts == [severity : {"high", "low"}, category : {"grammar"}]

FingerprintMaps == UNION {[keys -> IssueDicts] : keys \in SUBSET Fingerprints}

\* _count_by_attr over the issues of a map: value -> number of issues
_count_by_attr(issue_map, attr) ==
    LET vals == {issue_map[k][attr] : k \in DOMAIN issue_map}
    IN [v \in vals |-> Cardinality({k \in DOMAIN issue_map : issue_map[k][attr] = v})]

\* a compare that takes the baseline for the candidate
compare_Swapped(scan_a_fingerprints, scan_b_fingerprints) ==
    LET a_keys == DOMAIN scan_a_fingerprints
        b_keys == DOMAIN scan_b_fingerprints
        new_issues == [k \in a_keys \ b_keys |-> scan_a_fingerprints[k]]
        resolved_issues == [k \in b_keys \ a_keys |-> scan_b_fingerprints[k]]
    IN [new_issues |-> new_issues,
        resolved_issues |-> resolved_issues,
        unchanged_count |-> Cardinality(a_keys \cap b_keys),
        summary |-> [new_count |-> Cardinality(a_keys \ b_keys),
                     resolved_count |-> Cardinality(b_keys \ a_keys),
                     unchanged_count |-> Cardinality(a_keys \cap b_keys),
                     new_by_severity |-> _count_by_attr(new_issues, "severity"),
                     resolved_by_severity |-> _count_by_attr(resolved_issues, "severity"),
                     new_by_category |-> _count_by_attr(new_issues, "category"),
                     resolved_by_category |-> _count_by_attr(resolved_issues, "category")]]

\* DiffService.compare; the two issue lists are kept as maps from their
\* fingerprint, the order of a list built from a set is not fixed
compare(scan_a_fingerprints, scan_b_fingerprints) ==
    LET a_keys == DOMAIN scan_a_fingerprints
        b_keys == DOMAIN scan_b_fingerprints
        new_keys == b_keys \ a_keys
        resolved_keys == a_keys \ b_keys
        unchanged_keys == a_keys \cap b_keys
        new_issues == [k \in new_keys |-> scan_b_fingerprints[k]]
        resolved_issues == [k \in resolved_keys |-> scan_a_fingerprints[k]]
    IN [new_issues |-> new_issues,
        resolved_issues |-> resolved_issues,
        unchanged_count |-> Cardinality(unchanged_keys),
        summary |-> [new_count |-> Cardinality(new_keys),
                     resolved_count |-> Cardinality(resolved_keys),
                     unchanged_count |-> Cardinality(unchanged_keys),
                     new_by_severity |-> _count_by_attr(new_issues, "severity"),
                     resolved_by_severity |-> _count_by_attr(resolved_issues, "severity"),
                     new_by_category |-> _count_by_attr(new_issues, "category"),
                     resolved_by_category |-> _count_by_attr(resolved_issues, "category")]]

InitDiff ==
    /\ NoJob
    /\ NoDiscoverCall
    /\ \E a \in FingerprintMaps, b \in FingerprintMaps :
        probe = [scan_a |-> a, scan_b |-> b, given_a |-> a, given_b |-> b,
                 answered |-> FALSE]

\* one call of compare on the two maps; the maps are read only
Compare ==
    /\ probe.answered = FALSE
    /\ probe' = [scan_a |-> probe.scan_a, scan_b |-> probe.scan_b,
                 given_a |-> probe.given_a, given_b |-> probe.given_b,
                 answered |-> TRUE,
                 ret |-> compare(probe.scan_a, probe.scan_b)]
    /\ UNCHANGED <<d_pc, args, site, seen_urls, found, queue, visited, crawl_pages,
                   loaded, fetched, result, jobVars>>

NextDiff == Compare

SpecDiff == InitDiff /\ [][NextDiff]_vars

(* -------------------------- specifications ---------------------------- *)

Worker ==
    \/ Enqueue
    \/ MarkRunning
    \/ ProgressSet
    \/ ProgressPublish
    \/ ScrapeLoop
    \/ ScrapeUrl
    \/ ScrapeCommit
    \/ StageValidating
    \/ PrepareValidators
    \/ ValidateLoop
    \/ ValidatePage
    \/ ValidateExceptCommit
    \/ Finalize
    \/ Except

Next == Worker

Spec == Init /\ [][Next]_vars

\* a job submitted with the default options and one client connecting to
\* GET /jobs/{id}/events
InitSSE == InitJob("connect", {DefaultOptions}) /\ NoDiscovery

NextSSE ==
    \/ Worker
    \/ Subscribe
    \/ SendCurrent
    \/ GetMessage

SpecSSE == InitSSE /\ [][NextSSE]_vars

\* the same under scheduling: the worker process keeps running until
\* run_validation_job returns, and the generator's loop polls the pubsub
\* every half second for as long as the client stays connected
FairSSE ==
    /\ SpecSSE
    /\ WF_vars(Worker)
    /\ WF_vars(Subscribe)
    /\ WF_vars(SendCurrent)
    /\ WF_vars(GetMessage)

\* the worker with a cancellation request arriving at any moment
NextCancel ==
    \/ Worker
    \/ Cancel

SpecCancel == Init /\ [][NextCancel]_vars

(* ----------------------------- claims --------------------------------- *)

Pages == DOMAIN pages

\* run_validation_job has returned or thrown
Returned == pc = "done"

\* the scraping loop has run to its end
ScrapingEnded ==
    \/ job.stage \in {"validating", "finalizing"}
    \/ pc = "scrape_loop" /\ idx > total_pages

FetchSucceeded(p) == pages[p].fetch \in {"ok_chunks", "ok_empty"}

FetchFailed(p) == pages[p].fetch \in {"blocked", "timeout", "http_error"}

IsTerminal(e) == e.stage \in TerminalStages

TerminalEvents == {i \in DOMAIN events : IsTerminal(events[i])}

\* C1: every execution of run_validation_job, whatever exception occurs,
\* leaves the job's persisted status at completed or failed, never at running
C1_EndsCompletedOrFailed ==
    Returned => job.status \in {"completed", "failed"}

\* C2: once the persisted status is completed, failed or cancelled it never
\* changes again
C2_TerminalStatusIsFinal ==
    [][job.status \in TerminalStatus => job'.status = job.status]_vars

\* C3: at the end of the scraping stage a page whose fetch failed has
\* scrape_status failed, and only a page whose fetch succeeded has done
C3_StatusTellsFetchResult ==
    ScrapingEnded =>
        \A p \in Pages :
            /\ FetchFailed(p) => pages[p].scrape_status = "failed"
            /\ pages[p].scrape_status = "done" => FetchSucceeded(p)


\* C4: the scraping stage runs one attempt per selected page, whatever the
\* pages' outcomes, and ends with scraped == total_pages; a page's failure
\* never sends the job to the failure handler
C4_EveryPageAttemptedOnce ==
    /\ \A p \in Pages : attempts[p] <= 1
    /\ \A p \in Pages : pages[p].fetch # "none" => attempts[p] = 1
    /\ (job.stage = "scraping" /\ pc = "scrape_commit") =>
          /\ scraped = idx
          /\ \A p \in Pages : attempts[p] = (IF p <= idx THEN 1 ELSE 0)
    /\ ScrapingEnded =>
          /\ scraped = total_pages
          /\ \A p \in Pages : attempts[p] = 1
          /\ redis_faults = 0 => \A p \in Pages : pages[p].fetch # "none"
    /\ (pc = "except" /\ job.stage = "scraping" /\ faults = redis_faults) =>
          \A p \in Pages : attempts[p] = 0

\* a failed page is followed by a page that is attempted and scraped
C4_Witness ==
    /\ ScrapingEnded
    /\ total_pages >= 2
    /\ FetchFailed(1)
    /\ FetchSucceeded(2)
    /\ scraped = total_pages

\* C5: every network fetch of the job pipeline (page scrape, accessibility
\* audit) targets a URL that validate_url accepted before the fetch
C5_FetchOnlyAfterGate ==
    \A f \in net : f.page \in gate

NoVerdict == [s \in IssueSource |-> "none"]

\* the validating loop has finished page p
Validated(p) ==
    /\ job.stage \in {"validating", "finalizing"}
    /\ verdict[p] # NoVerdict
    /\ pc \notin {"validate_page", "validate_except"} \/ idx # p

\* C6: a validator's exception for a page costs that validator's findings
\* only: what the other enabled validators find for the page is persisted and
\* the job does not fail
C6_ValidatorFailureIsIsolated ==
    \A p \in Pages :
        (faults = 0 /\ Validated(p)) =>
            /\ issues[p] = {s \in IssueSource : verdict[p][s] = "issues"}
            /\ job.status # "failed"

AllFetchesSucceeded == \A p \in Pages : FetchSucceeded(p)

AllValidatorCallsRaise ==
    \A p \in Pages : \A s \in IssueSource : verdict[p][s] \in {"raise", "skipped"}

NoIssues == \A p \in Pages : issues[p] = {}

\* C7: a job whose pages are all scraped and whose validator calls all raise
\* ends completed with no issue persisted (no database or Redis call failing)
C7_CompletedWhenValidatorsRaise ==
    (Returned /\ faults = 0 /\ AllFetchesSucceeded /\ AllValidatorCallsRaise) =>
        job.status = "completed" /\ NoIssues

\* all three validators are enabled and raise for every page of a job
C7_Witness ==
    /\ Returned
    /\ faults = 0
    /\ total_pages >= 2
    /\ \A p \in Pages : pages[p].fetch = "ok_chunks"
    /\ \A p \in Pages : verdict[p]["deterministic"] = "raise"
    /\ \E p \in Pages : verdict[p]["llm"] = "raise" /\ verdict[p]["axe"] = "raise"
    /\ job.status = "completed"

\* C8: a job whose scraping fails for every page ends completed in stage
\* finalizing, its final snapshot has scraped == total_pages, and no issue is
\* persisted (no database or Redis call failing)
C8_AllScrapesFail ==
    (Returned /\ faults = 0 /\ total_pages >= 1 /\ \A p \in Pages : FetchFailed(p)) =>
        /\ job.status = "completed"
        /\ job.stage = "finalizing"
        /\ progress.stage = "finalizing"
        /\ progress.scraped = total_pages
        /\ NoIssues

HasCounters(e) == "scraped" \in DOMAIN e

\* scraped and validated never decrease along the published events
Monotone(evs) ==
    \A i, j \in DOMAIN evs :
        (i < j /\ HasCounters(evs[i]) /\ HasCounters(evs[j])) =>
            /\ evs[i].scraped <= evs[j].scraped
            /\ evs[i].validated <= evs[j].validated

\* a terminal event, when one was published, is the last event published
TerminalIsLast == TerminalEvents \subseteq {Len(events)}

\* C9: the published snapshots have non-decreasing counters and, on the
\* success and the failure path alike, exactly one terminal event, the last
C9_OneTerminalEventLast ==
    /\ Monotone(events)
    /\ TerminalIsLast
    /\ Returned => Cardinality(TerminalEvents) = 1

\* what does hold of the published events: the counters never decrease, a
\* terminal event is the last one, and a run that ends without an exception
\* leaving run_validation_job has published exactly one
PublishedWhenReturnedNormally ==
    /\ Monotone(events)
    /\ TerminalIsLast
    /\ (Returned /\ ~escaped) => Cardinality(TerminalEvents) = 1


\* C10: whenever a subscriber connects, the scraped and validated counters it
\* is sent never decrease
C10_SubscriberCountersNeverDecrease ==
    [][(HasCounters(seen) /\ HasCounters(seen')) =>
          /\ seen.scraped <= seen'.scraped
          /\ seen.validated <= seen'.validated]_vars


\* C11: a subscriber, whenever it connects, is eventually sent a terminal
\* event (stage finalizing or failed), after which its stream ends
C11_SubscriberReachesTerminalEvent ==
    <>(sub_pc = "closed")

\* what a run leaves behind when every page was fetched and validated: status
\* completed, every page done, and for each page the findings of the
\* validators that were run for it
PipelineOutcome ==
    /\ job.status = "completed"
    /\ \A p \in Pages :
          /\ pages[p].scrape_status = "done"
          /\ pages[p].fetch # "none"
          /\ verdict[p] # NoVerdict
          /\ issues[p] = IF verdict[p]["deterministic"] = "raise" THEN {}
                         ELSE {s \in IssueSource : verdict[p][s] = "issues"}

\* a run in which every publish succeeds and no database call fails
OutcomeWhenEveryPublishSucceeds ==
    (Returned /\ faults = 0) => PipelineOutcome

\* C12: a progress publish that raises (Redis set or publish) is swallowed:
\* final status, page scrape statuses and persisted findings are those of a
\* run in which every publish succeeds
C12_PublishFailureIsSwallowed ==
    (Returned /\ faults = redis_faults) => PipelineOutcome

\* C13: once a job's status is cancelled the orchestrator stops at its next
\* stage boundary: it enters no further stage and the persisted status stays
\* cancelled, it is not overwritten with running, completed or failed
C13_CancelledJobStaysCancelled ==
    [][job.status = "cancelled" =>
          /\ job'.status = "cancelled"
          /\ job'.stage = job.stage]_vars

\* the stage changes the state machine allows
StageSteps ==
    {<<"none", "scraping">>, <<"scraping", "validating">>,
     <<"validating", "running_tools">>, <<"validating", "finalizing">>,
     <<"running_tools", "finalizing">>}

\* C14: the persisted stage only advances in the order scraping, validating,
\* running_tools (optional), finalizing; status running is entered only from
\* pending; completed is written only together with stage finalizing, after
\* the validating loop has gone through every page
C14_StageOrder ==
    [][/\ job'.stage # job.stage => <<job.stage, job'.stage>> \in StageSteps
       /\ (job'.status = "running" /\ job.status # "running") => job.status = "pending"
       /\ (job'.status = "completed" /\ job.status # "completed") =>
             /\ job'.stage = "finalizing"
             /\ job.stage = "validating"
             /\ idx > total_pages
             /\ validated >= total_pages]_vars

\* a job of two pages has gone through every stage and is completed
C14_Witness ==
    /\ Returned
    /\ total_pages >= 2
    /\ job.status = "completed"
    /\ job.stage = "finalizing"
    /\ \A p \in Pages : verdict[p] # NoVerdict

\* C15: every validator the options enable is invoked for every page that
\* was scraped successfully, no disabled validator is invoked, and a page
\* whose scrape did not succeed gets no validator invocation (no database or
\* Redis call failing)
C15_EnabledValidatorsInvoked ==
    (Returned /\ faults = 0) =>
        \A p \in Pages : \A s \in Validators :
            /\ (FetchSucceeded(p) /\ Enabled(s)) => Invoked(p, s)
            /\ ~Enabled(s) => ~Invoked(p, s)
            /\ ~FetchSucceeded(p) => ~Invoked(p, s)

\* the part of it that holds: a disabled validator is never invoked
DisabledValidatorsNotInvoked ==
    \A p \in Pages : \A s \in Validators : ~Enabled(s) => ~Invoked(p, s)

DiscoverReturned == d_pc = "returned"

\* C16: whatever the strategies, the site's content and the max_pages the
\* caller passes, discover returns total_found <= max_pages
C16_TotalFoundWithinMaxPages ==
    DiscoverReturned => result.total_found <= args.max_pages

\* what holds: total_found is within the effective cap, which is the caller's
\* max_pages unless that is 0
TotalFoundWithinEffectiveCap ==
    DiscoverReturned => result.total_found <= max_pages

\* the crawl dequeues in non-decreasing depth order: the loads so far and the
\* queue behind them are sorted by depth
DequeuedInDepthOrder ==
    LET depths == [i \in DOMAIN loaded |-> loaded[i].depth]
                  \o [i \in DOMAIN queue |-> queue[i].depth]
    IN \A i, j \in DOMAIN depths : i < j => depths[i] <= depths[j]

\* C17: the crawl loads no page at a depth greater than the max_depth the
\* caller passed (0 included), and dequeues in non-decreasing depth order
C17_CrawlWithinMaxDepth ==
    /\ \A i \in DOMAIN loaded : loaded[i].depth <= args.max_depth
    /\ DequeuedInDepthOrder

\* what holds: the depth order, and no load beyond the effective max_depth,
\* which is the caller's max_depth unless that is 0
CrawlWithinEffectiveDepth ==
    /\ \A i \in DOMAIN loaded : loaded[i].depth <= max_depth
    /\ DequeuedInDepthOrder

\* the normalized URLs the sitemap stage found
SitemapNorms ==
    IF args.use_sitemap
    THEN {normalize_url(_discover_sitemap[i].url) : i \in DOMAIN _discover_sitemap}
    ELSE {}

SourceRank(source) ==
    CASE source = "sitemap" -> 1 [] source = "nav" -> 2 [] source = "crawl" -> 3

\* no two entries share a normalized URL
NoDuplicates(pgs) ==
    \A i, j \in DOMAIN pgs :
        i # j => normalize_url(pgs[i].url) # normalize_url(pgs[j].url)

Entries(pgs) == {pgs[i] : i \in DOMAIN pgs}

\* the result partitions the pages found by the decision hit: the excluded
\* entries are the pages hit, unselected; the others stay selected; no page
\* is dropped
PartitionedBy(hit(_)) ==
    /\ \A p \in Entries(result.pages) :
          /\ hit(p.url) <=> (p.selected = FALSE /\ p \in Entries(result.excluded))
          /\ p \notin Entries(result.excluded) => p.selected = TRUE
    /\ Len(result.pages) = Len(found)
    /\ {p.url : p \in Entries(result.pages)} = {p.url : p \in Entries(found)}
    /\ Entries(result.excluded) \subseteq Entries(result.pages)

\* C19: in the result a page matches an exclusion rule exactly when it is
\* unselected and listed in excluded; every other page is selected; excluded
\* pages are reported, none is dropped
C19_ExclusionPartition ==
    (DiscoverReturned /\ validate_url(args.base_url)) =>
        PartitionedBy(LAMBDA url : _is_excluded(url, args.exclusion_rules))

\* what holds: the same partition by the decision discover itself takes
PartitionByShouldExclude ==
    (DiscoverReturned /\ validate_url(args.base_url)) =>
        PartitionedBy(LAMBDA url : _should_exclude(url, args.exclusion_rules))

\* C20: for every URL and rule list the exclusion decision of discover
\* equals that of ExclusionService._is_excluded (url_contains on the full URL,
\* path_blocklist on the path, url_regex on the full URL, domain_blocklist on
\* the hostname)
C20_ShouldExcludeEqualsIsExcluded ==
    probe.answered => probe.discovery = probe.service

\* what holds: the two decisions agree on rule lists of url_regex,
\* path_blocklist and nav_label_exclude rules, and discover never excludes a
\* URL the exclusion service keeps
ShouldExcludeImpliesIsExcluded ==
    probe.answered =>
        /\ probe.discovery => probe.service
        /\ (\A i \in DOMAIN probe.rules :
               probe.rules[i].rule_type \notin {"url_contains", "domain_blocklist"})
             => probe.discovery = probe.service

\* the position of a URL in the list of pages found
RECURSIVE IndexOf(_, _)
IndexOf(pgs, url) ==
    IF pgs = <<>> THEN 0
    ELSE IF pgs[Len(pgs)].url = url /\ \A i \in 1..(Len(pgs) - 1) : pgs[i].url # url
         THEN Len(pgs)
         ELSE IndexOf(SubSeq(pgs, 1, Len(pgs) - 1), url)

\* the entries of pgs are in the order they were found, sitemap entries
\* before nav entries before crawl entries
InDiscoveryOrder(pgs) ==
    \A i, j \in DOMAIN pgs :
        i < j => /\ IndexOf(found, pgs[i].url) < IndexOf(found, pgs[j].url)
                 /\ IndexOf(found, pgs[i].url) > 0
                 /\ SourceRank(pgs[i].source) <= SourceRank(pgs[j].source)

ActiveCount == Len(result.pages) - Len(result.excluded)

\* C21: the returned pages list is the active pages followed by the excluded
\* pages, each group in discovery order
C21_ActiveThenExcludedInOrder ==
    (DiscoverReturned /\ validate_url(args.base_url)) =>
        /\ ActiveCount >= 0
        /\ SubSeq(result.pages, ActiveCount + 1, Len(result.pages)) = result.excluded
        /\ \A i \in 1..ActiveCount : result.pages[i].selected
        /\ \A i \in DOMAIN result.excluded : ~result.excluded[i].selected
        /\ InDiscoveryOrder(SubSeq(result.pages, 1, ActiveCount))
        /\ InDiscoveryOrder(result.excluded)

\* a page found first is excluded and listed after two active pages of
\* different sources
C21_Witness ==
    /\ DiscoverReturned
    /\ validate_url(args.base_url)
    /\ ActiveCount >= 2
    /\ Len(result.excluded) >= 1
    /\ result.pages[1].source # result.pages[ActiveCount].source
    /\ IndexOf(found, result.excluded[1].url) = 1

\* table entry k is the first whose pattern occurs in the path of url
FirstInTable(k, url) ==
    /\ In(<<SMART_EXCLUDE_PATTERNS[k].pattern>>, lower(UrlPath(url)))
    /\ \A j \in 1..(k - 1) : ~In(<<SMART_EXCLUDE_PATTERNS[j].pattern>>, lower(UrlPath(url)))

ResultExcluded == IF "excluded" \in DOMAIN result THEN result.excluded ELSE <<>>

\* C23: when the gate rejects base_url, discover issues no fetch, returns
\* without an exception, and its result is empty: no pages, no excluded
\* pages, no suggestions, total_found 0
C23_RejectedBaseReturnsEmpty ==
    (d_pc # "call" /\ ~validate_url(args.base_url)) =>
        /\ d_pc = "returned"
        /\ fetched = {}
        /\ loaded = <<>>
        /\ result.pages = <<>>
        /\ ResultExcluded = <<>>
        /\ result.smart_exclude_suggestions = <<>>
        /\ result.total_found = 0

\* a call with every strategy enabled on a base URL the gate rejects
C23_Witness ==
    /\ d_pc = "returned"
    /\ ~validate_url(args.base_url)
    /\ args.use_sitemap /\ args.use_nav /\ args.crawl_fallback
    /\ site.sitemap.kind = "index"
    /\ site.nav # <<>>

\* the conditions under which the gate is said to reject a URL
RejectCondition(url) ==
    \/ url.scheme \notin {"http", "https"}
    \/ url.host = ""
    \/ url.host \in _BLOCKED_HOSTS
    \/ getaddrinfo(url.host) = {}
    \/ \E a \in getaddrinfo(url.host) : a \in _BLOCKED_RANGES

Normalized == probe # None /\ probe.answered

\* C25: each normalizer is idempotent, and gives the same result for two
\* URLs that differ only by a trailing slash and/or a fragment
C25_NormalizersIdempotentAndCanonical ==
    Normalized =>
        /\ probe.discovery_twice = probe.discovery
        /\ probe.fingerprint_twice = probe.fingerprint
        /\ probe.discovery_other = probe.discovery
        /\ probe.fingerprint_other = probe.fingerprint

\* what does hold: the fingerprint normalizer is idempotent and the discovery
\* normalizer maps URLs that differ by trailing slash and/or fragment to one
\* text
FingerprintNormalizerIdempotent ==
    Normalized => probe.fingerprint_twice = probe.fingerprint

DiscoveryNormalizerCanonical ==
    Normalized => probe.discovery_other = probe.discovery

\* on URLs without params and query both normalizers behave as said
PlainUrl(text) == urlparse(text).params = <<>> /\ ~In(<<";">>, text) /\ ~In(<<"?">>, text)

NormalizersOnPlainUrls ==
    (Normalized /\ PlainUrl(probe.url) /\ PlainUrl(probe.other)) =>
        /\ probe.discovery_twice = probe.discovery
        /\ probe.fingerprint_twice = probe.fingerprint
        /\ probe.discovery_other = probe.discovery
        /\ probe.fingerprint_other = probe.fingerprint

Fingerprinted == probe # None /\ probe.answered

\* the two findings agree on every argument but the page URL
SameButUrl(a, b) == [a EXCEPT !.page_url = <<>>] = [b EXCEPT !.page_url = <<>>]

\* C26: the fingerprint of equal arguments is the same, and page URLs that
\* differ only by a trailing slash and/or a fragment give the same fingerprint
C26_FingerprintStableUnderUrlForm ==
    Fingerprinted =>
        /\ probe.fp_a_again = probe.fp_a
        /\ probe.a = probe.b => probe.fp_a = probe.fp_b
        /\ (SameButUrl(probe.a, probe.b)
            /\ SameUpToSlashAndFragment(probe.a.page_url, probe.b.page_url))
           => probe.fp_a = probe.fp_b

\* what does hold: determinism, and the same fingerprint for page URLs
\* without params and query that differ by trailing slash and/or fragment
FingerprintDeterministic ==
    Fingerprinted =>
        /\ probe.fp_a_again = probe.fp_a
        /\ probe.a = probe.b => probe.fp_a = probe.fp_b

FingerprintStableOnPlainUrls ==
    (/\ Fingerprinted
     /\ SameButUrl(probe.a, probe.b)
     /\ PlainUrl(probe.a.page_url) /\ PlainUrl(probe.b.page_url)
     /\ SameUpToSlashAndFragment(probe.a.page_url, probe.b.page_url))
    => probe.fp_a = probe.fp_b

\* C27: two findings have the same fingerprint only if they agree on page
\* URL, category, type, evidence and rule id; changing one of them changes
\* the fingerprint
C27_FingerprintSeparatesFindings ==
    Fingerprinted => (probe.fp_a = probe.fp_b => probe.a = probe.b)

\* the parts of a finding, the absent rule id as an empty part
PartsOf(f) ==
    LET p == parts(f.page_url, f.category, f.issue_type, f.evidence, f.guideline_rule_id)
    IN IF Len(p) = 4 THEN p \o << <<>> >> ELSE p

\* what does hold: findings whose normalized parts differ in exactly one
\* place have different fingerprints
OneChangedPartChangesFingerprint ==
    (Fingerprinted
     /\ Cardinality({i \in 1..5 : PartsOf(probe.a)[i] # PartsOf(probe.b)[i]}) = 1)
    => probe.fp_a # probe.fp_b

Compared == probe # None /\ probe.answered

\* the sum of the counts of a _count_by_attr result
RECURSIVE SumCounts(_)
SumCounts(counts) ==
    IF DOMAIN counts = {} THEN 0
    ELSE LET v == CHOOSE v \in DOMAIN counts : TRUE
         IN counts[v] + SumCounts([w \in DOMAIN counts \ {v} |-> counts[w]])

\* C28: compare returns the candidate's issues whose key is not in the
\* baseline as new, the baseline's issues whose key is not in the candidate as
\* resolved, and the size of the key intersection as unchanged_count; the
\* three key sets are disjoint and cover all keys, the summary counts are
\* their sizes, and the two input maps are as they were given
C28_DiffIsSetAlgebra ==
    Compared =>
        LET a == probe.given_a
            b == probe.given_b
            r == probe.ret
            new == DOMAIN r.new_issues
            resolved == DOMAIN r.resolved_issues
            unchanged == (DOMAIN a \cup DOMAIN b) \ (new \cup resolved)
        IN /\ new = DOMAIN b \ DOMAIN a
           /\ \A k \in new : r.new_issues[k] = b[k]
           /\ resolved = DOMAIN a \ DOMAIN b
           /\ \A k \in resolved : r.resolved_issues[k] = a[k]
           /\ unchanged = DOMAIN a \cap DOMAIN b
           /\ r.unchanged_count = Cardinality(DOMAIN a \cap DOMAIN b)
           /\ new \cap resolved = {}
           /\ new \cap (DOMAIN a \cap DOMAIN b) = {}
           /\ resolved \cap (DOMAIN a \cap DOMAIN b) = {}
           /\ new \cup resolved \cup (DOMAIN a \cap DOMAIN b) = DOMAIN a \cup DOMAIN b
           /\ r.summary.new_count = Cardinality(new)
           /\ r.summary.resolved_count = Cardinality(resolved)
           /\ r.summary.unchanged_count = r.unchanged_count
           /\ SumCounts(r.summary.new_by_severity) = Cardinality(new)
           /\ SumCounts(r.summary.resolved_by_severity) = Cardinality(resolved)
           /\ probe.scan_a = a
           /\ probe.scan_b = b

\* the spec's example: baseline {f1, f2}, candidate {f1, f3}
C28_Witness ==
    /\ Compared
    /\ DOMAIN probe.given_a = {"f1", "f2"}
    /\ DOMAIN probe.given_b = {"f1", "f3"}
    /\ DOMAIN probe.ret.new_issues = {"f3"}
    /\ DOMAIN probe.ret.resolved_issues = {"f2"}
    /\ probe.ret.unchanged_count = 1

\* pages discover had found when it reached the crawl stage
FoundBeforeCrawl == SelectSeq(found, LAMBDA p : p.source # "crawl")

\* the crawl stage is over and its condition held: crawl_fallback, and fewer
\* than max_pages pages from sitemap and nav
CrawlWasDue ==
    /\ d_pc \in {"exclude", "returned"}
    /\ validate_url(args.base_url)
    /\ args.crawl_fallback
    /\ Len(FoundBeforeCrawl) < max_pages

BaseAlreadyDiscovered ==
    \E i \in DOMAIN FoundBeforeCrawl :
        normalize_url(FoundBeforeCrawl[i].url) = normalize_url(args.base_url)

\* C29: when the crawl fallback is due, the BFS starts at base_url: it loads
\* base_url at depth 0, also when base_url was already found by sitemap or nav
C29_CrawlTraversesFromBase ==
    CrawlWasDue => (loaded # <<>> /\ loaded[1] = [url |-> args.base_url, depth |-> 0])

\* what does hold: the BFS loads base_url first when sitemap and nav did not
\* find it, and loads nothing at all when they did
CrawlFromUndiscoveredBase ==
    (CrawlWasDue /\ ~BaseAlreadyDiscovered) =>
        (loaded # <<>> /\ loaded[1] = [url |-> args.base_url, depth |-> 0])

NoCrawlFromDiscoveredBase ==
    (CrawlWasDue /\ BaseAlreadyDiscovered) =>
        (loaded = <<>> /\ \A i \in DOMAIN found : found[i].source # "crawl")

\* C30: once a terminal event is published the persisted status agrees with
\* it: finalizing goes with status completed, failed with status failed and
\* an error payload
C30_TerminalEventAgreesWithStatus ==
    \A i \in DOMAIN events :
        /\ events[i].stage = "finalizing" => job.status = "completed"
        /\ events[i].stage = "failed" => (job.status = "failed" /\ job.error_json)

\* what does hold: a published finalizing event goes with status completed,
\* and a published failed event goes with status failed and an error payload
\* unless the handler's own write of that status failed
FinalizingEventMeansCompleted ==
    \A i \in DOMAIN events : events[i].stage = "finalizing" => job.status = "completed"

FailedEventWithoutStatus ==
    \A i \in DOMAIN events :
        (events[i].stage = "failed" /\ ~(job.status = "failed" /\ job.error_json))
        => (faults >= 2 /\ job.status \in {"pending", "running", "completed"} /\ ~job.error_json)

====
